---- MODULE Spec2Model ----
(***************************************************************************)
(* Average Calculator HTTP microservice (main.py).                         *)
(*                                                                         *)
(* State: the module-level dictionary number_windows, the requests that    *)
(* are suspended in `await get_numbers_from_api(...)`, and a record of the *)
(* most recently completed request (what it fetched, what update_window    *)
(* returned, what the handler answered).  The handler is a coroutine on a  *)
(* single event loop: its only suspension point is the await of the fetch  *)
(* (line 153), so everything from line 155 to the return runs as one step. *)
(***************************************************************************)
EXTENDS Integers, Sequences, FiniteSets

VARIABLES
    USE_MOCK_DATA,   \* the module flag of line 45 (a deployment switch)
    number_windows,  \* NumberType -> list of numbers (lines 47-52)
    pc,              \* request slot -> "idle" | "fetching"
    numberid,        \* request slot -> path parameter of the request in flight
    applied,         \* history: per category, the lists handed to update_window
    startedAt,       \* history: request slot -> Len(applied[numberid]) at its start
    reported,        \* history: per category, what the latest updating request answered
    last,            \* history: the most recently completed request
    nreq             \* number of requests received so far

vars == <<USE_MOCK_DATA, number_windows, pc, numberid, applied, startedAt,
          reported, last, nreq>>

----------------------------------------------------------------------------
(* Bounds of the model *)

MaxRequests == 2     \* requests received in one behaviour
MaxInFlight == 2     \* request slots (requests suspended at the same time)
HugeVal == 1000      \* stands for an integer beyond the float range, e.g. 10**400
FloatMax == 50       \* stands for sys.float_info.max; HugeVal / 10 exceeds it

Requests == 1..MaxInFlight

----------------------------------------------------------------------------
(* Program constants *)

MAX_WINDOW_SIZE == 10

\* REQUEST_TIMEOUT = 0.5 seconds, counted here in tenths of a second.
REQUEST_TIMEOUT == 5

\* class NumberType(str, Enum): the four path values.
NumberType == {"p", "f", "e", "r"}

\* Path segments a client may send: the four values and one that is no
\* member of the enum.
PathSegments == NumberType \cup {"x"}

----------------------------------------------------------------------------
(* Lists *)

RECURSIVE Sum(_)
Sum(s) == IF s = <<>> THEN 0 ELSE Head(s) + Sum(Tail(s))

Range(s) == {s[i] : i \in 1..Len(s)}

\* Python's `num in lst`
Contains(lst, num) == \E i \in 1..Len(lst) : lst[i] = num

IsDistinct(s) == \A i, j \in 1..Len(s) : i # j => s[i] # s[j]

\* <<a, a+1, ..., a+n-1>>
Run(a, n) == [i \in 1..n |-> a + i - 1]

----------------------------------------------------------------------------
(* Candidate lists the upstream service may deliver *)

ShortVals == {1, 2}

ShortLists ==
    {<<>>} \cup {<<a>> : a \in ShortVals}
           \cup {<<a, b>> : a \in ShortVals, b \in ShortVals}

\* a value repeated around another one, an integer too large for a float,
\* six fresh values, and more fresh values than the window can hold
OtherLists ==
    {<<1, 2, 1>>, <<HugeVal>>, Run(3, 6), Run(1, MAX_WINDOW_SIZE + 1)}

CandidateLists == ShortLists \cup OtherLists

NoList == [kind |-> "none", vals |-> <<>>]
Scalar == [kind |-> "scalar", vals |-> <<>>]
List(vals) == [kind |-> "list", vals |-> vals]

----------------------------------------------------------------------------
(* get_test_data: random.sample(pool, k) with k in 1..5, i.e. a non-empty  *)
(* list of at most five distinct members of the category's pool.  The      *)
(* model draws the samples among the candidate lists.                      *)

Pool(number_type) ==
    CASE number_type = "p" -> {2, 3, 5, 7, 11, 13, 17, 19, 23, 29, 31, 37, 41, 43, 47}
      [] number_type = "f" -> {1, 2, 3, 5, 8, 13, 21, 34, 55, 89, 144}
      [] number_type = "e" -> {2, 4, 6, 8, 10, 12, 14, 16, 18, 20, 22, 24}
      [] OTHER -> 1..99

get_test_data(number_type) ==
    {s \in CandidateLists :
        /\ Len(s) \in 1..5
        /\ IsDistinct(s)
        /\ Range(s) \subseteq Pool(number_type)}

----------------------------------------------------------------------------
(* get_numbers_from_api, real branch: what the upstream call did.          *)
(*   exc     : exception raised by client.get ("none" when it returned)    *)
(*   elapsed : seconds/10 between start and the response                   *)
(*   status  : HTTP status code                                            *)
(*   numbers : the value under "numbers" of the JSON body                  *)

Upstream ==
    {[exc |-> "timeout", elapsed |-> REQUEST_TIMEOUT, status |-> 0, numbers |-> NoList],
     [exc |-> "none", elapsed |-> REQUEST_TIMEOUT + 1, status |-> 200,
      numbers |-> List(Run(3, 6))],
     [exc |-> "none", elapsed |-> 1, status |-> 500, numbers |-> NoList]}
    \cup
    {[exc |-> "none", elapsed |-> 1, status |-> 200, numbers |-> n] :
        n \in {Scalar} \cup {List(s) : s \in CandidateLists}}

MockUpstream == [exc |-> "none", elapsed |-> 0, status |-> 0, numbers |-> NoList]

\* lines 75-115: every exception and every rejected response becomes None
ApiResult(up) ==
    IF up.exc # "none" THEN NoList
    ELSE IF up.elapsed > REQUEST_TIMEOUT THEN NoList
    ELSE IF up.status # 200 THEN NoList
    ELSE up.numbers

\* The set of (upstream event, returned value) pairs of one call.
get_numbers_from_api(mock, number_type) ==
    IF mock
    THEN {[up |-> MockUpstream, result |-> List(s)] : s \in get_test_data(number_type)}
    ELSE {[up |-> up, result |-> ApiResult(up)] : up \in Upstream}

----------------------------------------------------------------------------
(* update_window *)

\* lines 122-125: the membership test reads `current`, which the loop does
\* not extend; the additions are appended only afterwards (line 127).
\* Variant: no membership test, every candidate is appended.
AllAdditions(current, new_vals) == new_vals

new_additions(current, new_vals) ==
    SelectSeq(new_vals, LAMBDA num : ~Contains(current, num))

\* Variants of the truncation: none at all, and current[:MAX_WINDOW_SIZE].
TruncateOff(current) == current

TruncateHead(current) ==
    IF Len(current) > MAX_WINDOW_SIZE
    THEN SubSeq(current, 1, MAX_WINDOW_SIZE)
    ELSE current

\* Variant: the minus sign is missing, current[MAX_WINDOW_SIZE:].
TruncateNoMinus(current) ==
    IF Len(current) > MAX_WINDOW_SIZE
    THEN SubSeq(current, MAX_WINDOW_SIZE + 1, Len(current))
    ELSE current

\* lines 129-130: current[-MAX_WINDOW_SIZE:]
Truncate(current) ==
    IF Len(current) > MAX_WINDOW_SIZE
    THEN SubSeq(current, Len(current) - MAX_WINDOW_SIZE + 1, Len(current))
    ELSE current

\* Variants of the store: the working copy is never written back, and it is
\* written to every key.
StoreNone(windows, type_key, current) == windows

StoreAll(windows, type_key, current) == [t \in DOMAIN windows |-> current]

\* line 132: number_windows[type_key] = current
Store(windows, type_key, current) == [windows EXCEPT ![type_key] = current]

update_window(windows, type_key, new_vals) ==
    LET previous == windows[type_key]
        added    == new_additions(previous, new_vals)
        current  == Truncate(previous \o added)
    IN  [windows  |-> Store(windows, type_key, current),
         previous |-> previous,
         current  |-> current,
         added    |-> added]

----------------------------------------------------------------------------
(* calc_avg: sum(numbers) / len(numbers), 0.0 for the empty list.  The     *)
(* result is kept as the pair <<numerator, denominator>>.  Python's int    *)
(* true division raises OverflowError when the quotient does not fit a     *)
(* float.                                                                  *)

calc_avg_raises(numbers) ==
    /\ numbers # <<>>
    /\ Sum(numbers) \div Len(numbers) > FloatMax

\* Variant: floor division, sum(numbers) // len(numbers).
CalcAvgFloorDiv(numbers) ==
    IF numbers = <<>> THEN <<0, 1>> ELSE <<Sum(numbers) \div Len(numbers), 1>>

calc_avg(numbers) ==
    IF numbers = <<>> THEN <<0, 1>> ELSE <<Sum(numbers), Len(numbers)>>

----------------------------------------------------------------------------
(* get_numbers: the handler from line 155 on, given the value the fetch    *)
(* returned.  The result says which windows are stored afterwards and what *)
(* the client receives.                                                    *)

NumberResponse(prev, curr, added, average) ==
    [windowPrevState |-> prev, windowCurrState |-> curr,
     numbers |-> added, avg |-> average]

NoResponse == NumberResponse(<<>>, <<>>, <<>>, <<0, 1>>)

NoUpdate == [called |-> FALSE, previous |-> <<>>, current |-> <<>>, added |-> <<>>]

Outcome(windows, status, path, fault, upd, response) ==
    [windows |-> windows, status |-> status, path |-> path, fault |-> fault,
     upd |-> upd, response |-> response]

\* lines 157-163 and lines 181-187: the same four expressions
CurrentWindowResponse(window) ==
    NumberResponse(window, window, <<>>, calc_avg(window))

\* lines 179-187: the except clause; an exception raised inside it leaves
\* the handler.
ExceptClause(windows, id, fault, upd) ==
    IF calc_avg_raises(windows[id])
    THEN Outcome(windows, "error", "except", fault, upd, NoResponse)
    ELSE Outcome(windows, "ok", "except", fault, upd,
                 CurrentWindowResponse(windows[id]))

get_numbers(windows, id, new_numbers) ==
    IF new_numbers.kind = "scalar"
    THEN \* line 155: len() of a value that has no length raises TypeError
         ExceptClause(windows, id, "len", NoUpdate)
    ELSE IF new_numbers.kind = "none" \/ Len(new_numbers.vals) = 0
    THEN \* lines 156-163
         IF calc_avg_raises(windows[id])
         THEN ExceptClause(windows, id, "avg", NoUpdate)
         ELSE Outcome(windows, "ok", "degraded", "none", NoUpdate,
                      CurrentWindowResponse(windows[id]))
    ELSE \* lines 167-178
         LET u   == update_window(windows, id, new_numbers.vals)
             upd == [called |-> TRUE, previous |-> u.previous,
                     current |-> u.current, added |-> u.added]
         IN  IF calc_avg_raises(u.current)
             THEN ExceptClause(u.windows, id, "avg", upd)
             ELSE Outcome(u.windows, "ok", "update", "none", upd,
                          NumberResponse(u.previous, u.current, u.added,
                                         calc_avg(u.current)))

----------------------------------------------------------------------------
(* The service *)

NoRequest ==
    [status |-> "init", numberid |-> "", upstream |-> MockUpstream,
     fetched |-> NoList, before |-> [t \in NumberType |-> <<>>],
     path |-> "none", fault |-> "none", upd |-> NoUpdate,
     overlapped |-> FALSE, prior |-> [given |-> TRUE, curr |-> <<>>],
     response |-> NoResponse]

Init ==
    /\ USE_MOCK_DATA \in BOOLEAN
    /\ number_windows = [t \in NumberType |-> <<>>]
    /\ pc = [r \in Requests |-> "idle"]
    /\ numberid = [r \in Requests |-> ""]
    /\ applied = [t \in NumberType |-> <<>>]
    /\ startedAt = [r \in Requests |-> 0]
    /\ reported = [t \in NumberType |-> [given |-> TRUE, curr |-> <<>>]]
    /\ last = NoRequest
    /\ nreq = 0

\* Variant: the parameter declared as a plain string, every segment passes.
ValidPathAny(seg) == TRUE

\* line 146, `numberid: NumberType`: the path segment must be a member of
\* the enum.
ValidPath(seg) == seg \in NumberType

\* line 146: FastAPI converts the path segment to NumberType and answers a
\* client error (422) without calling the handler when it is no member.
Reject(seg) ==
    /\ nreq < MaxRequests
    /\ ~ValidPath(seg)
    /\ nreq' = nreq + 1
    /\ last' = [NoRequest EXCEPT !.status = "rejected", !.numberid = seg,
                                 !.before = number_windows]
    /\ UNCHANGED <<USE_MOCK_DATA, number_windows, pc, numberid, applied, startedAt,
                   reported>>

\* lines 150-153: the handler starts and suspends in the fetch.
Start(r, seg) ==
    /\ nreq < MaxRequests
    /\ ValidPath(seg)
    /\ pc[r] = "idle"
    /\ nreq' = nreq + 1
    /\ pc' = [pc EXCEPT ![r] = "fetching"]
    /\ numberid' = [numberid EXCEPT ![r] = seg]
    /\ startedAt' = [startedAt EXCEPT ![r] =
                         IF seg \in DOMAIN applied THEN Len(applied[seg]) ELSE 0]
    /\ UNCHANGED <<USE_MOCK_DATA, number_windows, applied, reported, last>>

\* lines 153-187: the fetch returns and the handler runs to its end.
Complete(r) ==
    /\ pc[r] = "fetching"
    /\ \E f \in get_numbers_from_api(USE_MOCK_DATA, numberid[r]) :
          LET id == numberid[r]
              o  == get_numbers(number_windows, id, f.result)
          IN  /\ number_windows' = o.windows
              /\ applied' = IF o.upd.called
                            THEN [applied EXCEPT ![id] = Append(@, f.result.vals)]
                            ELSE applied
              /\ last' = [status |-> o.status, numberid |-> id,
                          upstream |-> f.up, fetched |-> f.result,
                          before |-> number_windows, path |-> o.path,
                          fault |-> o.fault, upd |-> o.upd,
                          overlapped |-> Len(applied[id]) > startedAt[r],
                          prior |-> reported[id],
                          response |-> o.response]
              /\ reported' = IF o.upd.called
                             THEN [reported EXCEPT ![id] =
                                      [given |-> o.status = "ok",
                                       curr  |-> o.response.windowCurrState]]
                             ELSE reported
    /\ pc' = [pc EXCEPT ![r] = "idle"]
    /\ numberid' = [numberid EXCEPT ![r] = ""]
    /\ startedAt' = [startedAt EXCEPT ![r] = 0]
    /\ UNCHANGED <<USE_MOCK_DATA, nreq>>

Next ==
    \/ \E seg \in PathSegments : Reject(seg)
    \/ \E r \in Requests, seg \in PathSegments : Start(r, seg)
    \/ \E r \in Requests : Complete(r)

Spec == Init /\ [][Next]_vars

----------------------------------------------------------------------------
(* Helpers of the properties *)

Completed == last.status \in {"ok", "error"}

Updated == Completed /\ last.upd.called

Responded == last.status = "ok"

\* the fetch gave no data: None or an empty list (line 155)
NoData ==
    \/ last.fetched.kind = "none"
    \/ last.fetched.kind = "list" /\ last.fetched.vals = <<>>

\* index of the first occurrence of x in s
FirstIndex(s, x) == CHOOSE i \in 1..Len(s) : s[i] = x /\ \A j \in 1..(i - 1) : s[j] # x

\* the last n elements of s
LastN(s, n) == [i \in 1..n |-> s[Len(s) - n + i]]

\* One update applied to a window on its own, and a list of updates applied
\* one after the other to the empty window.
SerialUpdate(w, batch) ==
    LET full == w \o SelectSeq(batch, LAMBDA x : x \notin Range(w))
    IN  IF Len(full) <= 10 THEN full ELSE LastN(full, 10)

RECURSIVE Replay(_)
Replay(batches) ==
    IF batches = <<>> THEN <<>>
    ELSE SerialUpdate(Replay(SubSeq(batches, 1, Len(batches) - 1)),
                      batches[Len(batches)])

----------------------------------------------------------------------------
(* Properties *)

\* C1: every stored window has at most 10 elements, and so has the
\* windowCurrState of every response.
CapacityBound ==
    /\ \A t \in NumberType : Len(number_windows[t]) <= 10
    /\ Responded => Len(last.response.windowCurrState) <= 10

\* an update whose working copy exceeded the capacity left a full window
CapacityBoundWitness ==
    /\ Updated /\ Responded
    /\ Len(last.upd.previous) + Len(last.upd.added) > 10
    /\ Len(number_windows[last.numberid]) = 10
    /\ Len(last.response.windowCurrState) = 10

\* C2: no stored window contains a value twice.
WindowsHaveNoDuplicates ==
    \A t \in NumberType : IsDistinct(number_windows[t])

\* C3: the added list returned by an update (the numbers of the response)
\* never contains a value twice.
AddedHasNoDuplicates ==
    /\ Updated => IsDistinct(last.upd.added)
    /\ Responded => IsDistinct(last.response.numbers)

\* C4: every element of added occurs in the candidates, none occurs in
\* previous, and added follows the order of first occurrence in the
\* candidates.
AddedSubsetInOrder ==
    Updated =>
        LET added == last.upd.added
            cands == last.fetched.vals
        IN  /\ Range(added) \subseteq Range(cands)
            /\ Range(added) \cap Range(last.upd.previous) = {}
            /\ \A i, j \in 1..Len(added) :
                   i < j => FirstIndex(cands, added[i]) <= FirstIndex(cands, added[j])

\* C5: current is previous followed by added when that has at most 10
\* elements, and otherwise exactly its last 10 elements; it is what is stored.
FifoEviction ==
    Updated =>
        LET full == last.upd.previous \o last.upd.added
        IN  /\ Len(full) <= 10 => last.upd.current = full
            /\ Len(full) > 10 => last.upd.current = LastN(full, 10)
            /\ number_windows[last.numberid] = last.upd.current

\* an update dropped the oldest entry of a non-empty window and kept the
\* value it inserted last
FifoEvictionWitness ==
    /\ Updated
    /\ Len(last.upd.previous) > 0
    /\ Len(last.upd.added) > 0
    /\ Len(last.upd.previous) + Len(last.upd.added) > 10
    /\ last.upd.previous[1] \notin Range(number_windows[last.numberid])
    /\ number_windows[last.numberid][10] = last.upd.added[Len(last.upd.added)]

\* C6: when the fetch gives no data the stored windows are unchanged and the
\* response has windowPrevState = windowCurrState = the stored window,
\* numbers = [] and avg = the average of that window.
NoDataKeepsWindow ==
    (Completed /\ NoData) =>
        LET window == last.before[last.numberid]
        IN  /\ number_windows = last.before
            /\ Responded
            /\ last.response =
                   NumberResponse(window, window, <<>>, calc_avg(window))

\* C7: the updates of a category are serialized: each stored window is the
\* result of applying the category's updates one after the other in the
\* order of their writes, and each update computed previous and added
\* against the window stored by the update before it.
UpdatesSerialized ==
    /\ \A t \in NumberType : number_windows[t] = Replay(applied[t])
    /\ Updated =>
           LET batches == applied[last.numberid]
               stored  == Replay(SubSeq(batches, 1, Len(batches) - 1))
           IN  /\ last.upd.previous = stored
               /\ last.upd.added =
                      SelectSeq(last.fetched.vals, LAMBDA x : x \notin Range(stored))
               /\ last.upd.current = number_windows[last.numberid]

\* a request updated a category that another request had updated while the
\* first was suspended in its fetch, and both updates are in the window
UpdatesSerializedWitness ==
    /\ Updated
    /\ last.overlapped
    /\ Len(applied[last.numberid]) = 2
    /\ Len(last.upd.added) > 0
    /\ Len(last.upd.previous) > 0
    /\ Len(number_windows[last.numberid]) =
           Len(last.upd.previous) + Len(last.upd.added)

\* C8: the handler of a valid category always ends with a response and
\* never propagates an error.
HandlerNeverPropagates ==
    Completed => Responded

\* C9: after a fault anywhere in the handler the stored window is the one
\* from before the request's update and the response has windowPrevState =
\* windowCurrState = that window and numbers = [].
FaultTakesDegradedPath ==
    (Completed /\ last.fault # "none") =>
        LET window == last.before[last.numberid]
        IN  /\ number_windows[last.numberid] = window
            /\ Responded
            /\ last.response.windowPrevState = window
            /\ last.response.windowCurrState = window
            /\ last.response.numbers = <<>>

\* C10: an update on one category leaves the windows of the other three
\* categories unchanged.
OtherCategoriesUntouched ==
    Completed =>
        \A t \in NumberType \ {last.numberid} : number_windows[t] = last.before[t]

\* an update changed its category while another category held values
OtherCategoriesUntouchedWitness ==
    /\ Updated
    /\ number_windows[last.numberid] # last.before[last.numberid]
    /\ \E t \in NumberType \ {last.numberid} :
           /\ number_windows[t] # <<>>
           /\ number_windows[t] # number_windows[last.numberid]

\* the sum of s, taken from its last element down
RECURSIVE SumFromEnd(_, _)
SumFromEnd(s, n) == IF n = 0 THEN 0 ELSE s[n] + SumFromEnd(s, n - 1)

\* C11: in every response avg is sum(windowCurrState) / len(windowCurrState)
\* when windowCurrState is non-empty and exactly 0.0 when it is empty (avg
\* is the fraction <<numerator, denominator>>).
AverageCorrect ==
    Responded =>
        LET curr == last.response.windowCurrState
            avg  == last.response.avg
        IN  IF curr = <<>>
            THEN avg = <<0, 1>>
            ELSE /\ avg[2] > 0
                 /\ avg[1] * Len(curr) = SumFromEnd(curr, Len(curr)) * avg[2]

\* a response of the path without update reports an average that is no
\* whole number
AverageCorrectWitness ==
    /\ Responded
    /\ ~last.upd.called
    /\ Len(last.response.windowCurrState) > 1
    /\ last.response.avg[1] % last.response.avg[2] # 0

\* the upstream call did not complete within REQUEST_TIMEOUT: client.get
\* raised TimeoutException, or it returned after more than the budget
TimedOut(up) ==
    \/ up.exc = "timeout"
    \/ up.exc = "none" /\ up.elapsed > REQUEST_TIMEOUT

\* C12: a fetch that exceeds the time budget counts as a failure: its data is
\* not merged, the stored windows are unchanged and the request ends on the
\* degraded path (a response built from the stored window).
TimeoutIsFailure ==
    (Completed /\ ~USE_MOCK_DATA /\ TimedOut(last.upstream)) =>
        /\ last.fetched = NoList
        /\ ~last.upd.called
        /\ number_windows = last.before
        /\ Responded
        /\ last.path = "degraded"
        /\ last.response.windowCurrState = last.before[last.numberid]
        /\ last.response.numbers = <<>>

\* C13: a request whose category is not one of p, f, e, r is rejected before
\* the fetch or the update runs and leaves the four windows unchanged; only
\* the four categories ever reach the handler.
InvalidCategoryRejected ==
    /\ \A r \in Requests : pc[r] = "fetching" => numberid[r] \in {"p", "f", "e", "r"}
    /\ Completed => last.numberid \in {"p", "f", "e", "r"}
    /\ last.status = "rejected" =>
           /\ last.numberid \notin {"p", "f", "e", "r"}
           /\ number_windows = last.before
           /\ ~last.upd.called
           /\ last.fetched = NoList

\* a request with an unknown category was rejected while a window held values
InvalidCategoryRejectedWitness ==
    /\ last.status = "rejected"
    /\ last.numberid = "x"
    /\ \E t \in NumberType : number_windows[t] # <<>>

\* C14: per category, in the order of the writes, the windowPrevState of the
\* response of each updating request is the windowCurrState of the response
\* of the updating request before it, and is empty for the first.
PrevIsPrecedingCurr ==
    (Updated /\ Responded) =>
        /\ last.prior.given
        /\ last.response.windowPrevState = last.prior.curr

KnownValuesChangeNothing ==
    (Updated /\ Range(last.fetched.vals) \subseteq Range(last.before[last.numberid])) =>
        /\ last.upd.added = <<>>
        /\ last.upd.current = last.before[last.numberid]
        /\ number_windows[last.numberid] = last.before[last.numberid]

\* the head of a window of several values was fetched again and is still
\* its head
KnownValuesChangeNothingWitness ==
    /\ Updated
    /\ Len(last.before[last.numberid]) > 1
    /\ last.fetched.vals = <<last.before[last.numberid][1]>>
    /\ number_windows[last.numberid][1] = last.fetched.vals[1]
    /\ last.upd.added = <<>>

\* C17: from one state to the next no window gets shorter: it grows up to
\* 10 elements and then stays at exactly 10.
WindowLengthNeverDecreases ==
    [][\A t \in NumberType :
          /\ Len(number_windows'[t]) >= Len(number_windows[t])
          /\ Len(number_windows'[t]) <= 10
          /\ Len(number_windows[t]) = 10 => Len(number_windows'[t]) = 10]_vars

\* a full window took new values and is full again
WindowLengthNeverDecreasesWitness ==
    /\ Updated
    /\ Len(last.before[last.numberid]) = 10
    /\ Len(last.upd.added) > 0
    /\ Len(number_windows[last.numberid]) = 10
    /\ number_windows[last.numberid] # last.before[last.numberid]

====
